---- MODULE Spec2Model ----
(***************************************************************************)
(* A model of the DCSM serial client (src/src/dcsm.ts): the Device class   *)
(* with its connection retry chain, the response accumulator and the       *)
(* timeout-bounded operations built on it.                                 *)
(*                                                                         *)
(* Time is counted in milliseconds and advances in steps of the retry      *)
(* pause (100 ms); every timer of connect carries its deadline, and the    *)
(* clock does not pass a deadline before the timer has run.  setTimeout    *)
(* with a delay below 1 ms runs "as soon as possible": at this grain, at   *)
(* the instant it was set.                                                 *)
(***************************************************************************)
EXTENDS Integers, Sequences, FiniteSets, TLC

\* ------------------------------------------------------------------ bounds

\* connect invocations (the first call and its retries) one run may make; the
\* code itself never stops retrying while the endpoint keeps failing.
MaxAttempts == 6

\* reply-expecting calls one run makes
MaxOps == 2

\* "data" events one run delivers
MaxChunks == 4

\* fire-and-forget calls one run makes
MaxWrites == 2

\* calls of the bitset codec one run makes
MaxCalls == 3

\* ------------------------------------------------------- program constants

\* setTimeout(..., 100) of the retry, and the unit of the clock
RetryPause == 100
\* this.connect(timeout - 100)
RetryStep == 100

\* Device.DEFAULT_TIMEOUT
DEFAULT_TIMEOUT == 1000

\* budgets the caller passes to connect(timeout)
Budgets == {0, 100, 300}

\* universes the caller asks for
Universes == {300}

\* port numbers a device lists in its identify record
PortNumbers == {0, 1, 2}

VARIABLES
    now,          \* the clock, ms
    calls,        \* the connect invocations so far, each with the SerialPort it made
    port,         \* this.port: the index in calls of the current SerialPort, 0 = null
    identity,     \* dcsmVersion, name, model, ports, features of the Device
    dataCallback, \* this.dataCallback: the operation whose predicate is registered, 0 = null
    response,     \* this.response; <<>> is null (dataReceived treats null and empty alike)
    ops,          \* the reply-expecting calls so far: promises, timer, resolved value
    written,      \* every port.write(buffer) so far, in order
    wire,         \* bytes the device has sent that have not reached the client yet
    chunks,       \* "data" events so far
    uncaught,     \* an exception has left the "data" listener
    bitset,       \* the BitSet a caller of the codec holds: the set of its members
    buffer,       \* the Buffer a caller of the codec holds
    lastCall,     \* the last call of bitsetToBuffer or bufferToBitset and how it ended
    executor,     \* the Promise executor of a call that is running, statement by statement
    discovery     \* connectDevices: its paths, index and devices, and its promise

connVars == <<now, calls, port>>
opVars == <<identity, dataCallback, response, ops, written, wire, chunks, uncaught>>
codecVars == <<bitset, buffer, lastCall>>
vars == <<now, calls, port, identity, dataCallback, response, ops, written, wire,
          chunks, uncaught, bitset, buffer, lastCall, executor, discovery>>

\* --------------------------------------------------------------- promises

RECURSIVE Settle(_, _, _)
\* resolve()/reject() of invocation i's promise with outcome v.  A settled
\* promise ignores it.  Invocation i > 1 was started by invocation i - 1 as
\* this.connect(timeout - 100).then(resolve).catch(reject): its outcome is
\* handed on to the promise of i - 1.
Settle(cs, i, v) ==
    IF cs[i].result # "pending" THEN cs
    ELSE LET done == [cs EXCEPT ![i].result = v]
         IN  IF i > 1 THEN Settle(done, i - 1, v) ELSE done

\* setTimeout(f, delay) set at time t: the time f is due
Due(t, delay) == t + (IF delay < 1 THEN 0 ELSE delay)

\* SerialPort.close(): an opening or open port is closed; a port that failed to
\* open or is closed already stays as it is.
ClosePort(cs, p) ==
    IF p = 0 THEN cs
    ELSE IF cs[p].port \in {"opening", "open"} THEN [cs EXCEPT ![p].port = "closed"]
    ELSE cs

\* ---------------------------------------------------------------- connect

\* connect(timeout) at time t: a new SerialPort (opening at once), the timer of
\* the budget, the error and open listeners.
connect(cs, timeout, t) ==
    Append(cs, [budget         |-> timeout,
                port           |-> "opening",
                timer          |-> "armed",
                deadline       |-> Due(t, timeout),
                retry          |-> "none",
                retryAt        |-> 0,
                result         |-> "pending",
                errorListener  |-> TRUE,
                dataListeners  |-> 0])

\* connectTimeout gone wrong: the timer rejects and leaves the endpoint as it is
connectTimeout_NoClose(cs, i, p) ==
    Settle([cs EXCEPT ![i].timer = "fired"], i, "timeout reached")

\* the timer of the budget: this.port?.close(); reject("timeout reached")
connectTimeout(cs, i, p) ==
    Settle(ClosePort([cs EXCEPT ![i].timer = "fired"], p), i, "timeout reached")

\* the "error" listener of invocation i at time t
connectError(cs, i, t) ==
    LET failed   == [cs EXCEPT ![i].port = "error"]
        rejected == IF cs[i].budget <= 0
                    THEN Settle(failed, i, "connection failed")
                    ELSE failed
    IN  [rejected EXCEPT ![i].retry = "armed", ![i].retryAt = Due(t, RetryPause)]

\* the "open" listener of invocation i; p is this.port
connectOpen(cs, i, p) ==
    LET opened   == [cs EXCEPT ![i].port = "open",
                               ![i].timer = IF @ = "armed" THEN "cleared" ELSE @]
        listened == IF p = 0 THEN opened
                    ELSE [opened EXCEPT ![p].dataListeners = @ + 1,
                                        ![p].errorListener = FALSE]
    IN  Settle(listened, i, "resolved")

\* ---------------------------------------------------------------- actions

\* the caller's connect(b), once per device
Connect(b) ==
    /\ Len(calls) = 0
    /\ calls' = connect(calls, b, now)
    /\ port' = Len(calls')
    /\ UNCHANGED <<now, opVars, codecVars, executor, discovery>>

\* the endpoint reports that opening failed
OpenError(i) ==
    /\ calls[i].port = "opening"
    /\ calls[i].errorListener
    /\ calls' = connectError(calls, i, now)
    /\ UNCHANGED <<now, port, opVars, codecVars, executor, discovery>>

\* the endpoint opens
OpenOk(i) ==
    /\ calls[i].port = "opening"
    /\ calls' = connectOpen(calls, i, port)
    /\ UNCHANGED <<now, port, opVars, codecVars, executor, discovery>>

\* the timer of invocation i's budget runs
ConnectTimer(i) ==
    /\ calls[i].timer = "armed"
    /\ calls[i].deadline <= now
    /\ calls' = connectTimeout(calls, i, port)
    /\ UNCHANGED <<now, port, opVars, codecVars, executor, discovery>>

\* the retry timer of invocation i runs: this.connect(timeout - 100)
Retry(i) ==
    /\ calls[i].retry = "armed"
    /\ calls[i].retryAt <= now
    /\ Len(calls) < MaxAttempts
    /\ calls' = connect([calls EXCEPT ![i].retry = "fired"],
                        calls[i].budget - RetryStep, now)
    /\ port' = Len(calls')
    /\ UNCHANGED <<now, opVars, codecVars, executor, discovery>>

TimerPending(c) == c.timer = "armed" \/ c.retry = "armed"
TimerDue(c) ==
    \/ c.timer = "armed" /\ c.deadline <= now
    \/ c.retry = "armed" /\ c.retryAt <= now

\* time passes, up to the next deadline
Tick ==
    /\ \E i \in DOMAIN calls : TimerPending(calls[i])
    /\ \A i \in DOMAIN calls : ~TimerDue(calls[i])
    /\ now' = now + RetryPause
    /\ UNCHANGED <<calls, port, opVars, codecVars, executor, discovery>>

\* ------------------------------------------------------------------ bytes

\* Buffer.writeUInt16LE(n)
UInt16LE(n) == <<n % 256, (n \div 256) % 256>>

EndsWith(data, tail) ==
    /\ Len(data) >= Len(tail)
    /\ SubSeq(data, Len(data) - Len(tail) + 1, Len(data)) = tail

\* a value that may be undefined: <<>> is undefined, <<x>> is x
Undefined == <<>>
Def(x) == <<x>>

\* JavaScript's truthiness of a string property: undefined and "" are falsy
Truthy(s) == s # Undefined /\ s[1] # ""

\* --------------------------------------------------------- what a device says

\* the double line break that ends an identify record
LineBreaks == <<10, 10>>

\* {"version":"1.0"}
RecordVersionOnly ==
    <<123, 34, 118, 101, 114, 115, 105, 111, 110, 34, 58, 34, 49, 46, 48, 34, 125>>
\* {"version":"2","name":"n","model":"m","ports":[{"port":1,"mode":"o"}],"features":["f"]}
RecordFull ==
    <<123, 34, 118, 101, 114, 115, 105, 111, 110, 34, 58, 34, 50, 34, 44, 34, 110,
      97, 109, 101, 34, 58, 34, 110, 34, 44, 34, 109, 111, 100, 101, 108, 34, 58,
      34, 109, 34, 44, 34, 112, 111, 114, 116, 115, 34, 58, 91, 123, 34, 112, 111,
      114, 116, 34, 58, 49, 44, 34, 109, 111, 100, 101, 34, 58, 34, 111, 34, 125,
      93, 44, 34, 102, 101, 97, 116, 117, 114, 101, 115, 34, 58, 91, 34, 102, 34,
      93, 125>>
\* not json
RecordNotJson == <<110, 111, 116, 32, 106, 115, 111, 110>>
\* {"name":"n"}
RecordNoVersion == <<123, 34, 110, 97, 109, 101, 34, 58, 34, 110, 34, 125>>
\* {"version":""}
RecordEmptyVersion ==
    <<123, 34, 118, 101, 114, 115, 105, 111, 110, 34, 58, 34, 34, 125>>

IdentifyVersionOnly == RecordVersionOnly \o LineBreaks
IdentifyFull == RecordFull \o LineBreaks
IdentifyNotJson == RecordNotJson \o LineBreaks
IdentifyNoVersion == RecordNoVersion \o LineBreaks
IdentifyEmptyVersion == RecordEmptyVersion \o LineBreaks

\* the 512 values of a universe as the device holds them: 20..219, none of them
\* a line break
UniverseValues == [i \in 1..512 |-> 20 + ((i - 1) % 200)]

\* the framerate the device reports
FramerateValue == <<44>>

\* the lists a device reports, each after its count: no mask universe; the mask
\* universes 7 and 300; one patch (output 2, input 1, mask 3); the ports of
\* universe 1 (output) and universe 300 (input)
NoMaskUniverses == UInt16LE(0)
MaskUniverseList == UInt16LE(2) \o UInt16LE(7) \o UInt16LE(300)
PatchList == UInt16LE(1) \o UInt16LE(2) \o UInt16LE(1) \o UInt16LE(3)
PortList == UInt16LE(2) \o UInt16LE(1) \o <<0>> \o UInt16LE(300) \o <<1>>

\* a mask universe as the device holds it: the 64 bytes of the mask (indices 0
\* and 7 of every eight masking), then the 512 values
MaskUniverseValues == [i \in 1..64 |-> 129] \o UniverseValues

\* What the device answers to a message with this opcode; <<>>: it stays silent.
DeviceResponses(opcode) ==
    CASE opcode = 1 -> {<<>>, IdentifyVersionOnly, IdentifyFull, IdentifyNotJson,
                        IdentifyNoVersion, IdentifyEmptyVersion}
      [] opcode = 4 -> {<<>>, UniverseValues}
      [] opcode = 6 -> {<<>>, FramerateValue}
      [] opcode = 8 -> {<<>>, NoMaskUniverses, MaskUniverseList}
      [] opcode = 12 -> {<<>>, MaskUniverseValues}
      [] opcode = 16 -> {<<>>, PatchList, PortList}
      [] OTHER -> {<<>>}

\* A device that never completes a response: it stays silent, or sends the record
\* with one line break only, or 300 of the 512 values.
PartialResponses(opcode) ==
    CASE opcode = 1 -> {<<>>, RecordVersionOnly \o <<10>>}
      [] opcode = 4 -> {<<>>, SubSeq(UniverseValues, 1, 300)}
      [] OTHER -> {<<>>}

\* ------------------------------------------------------------- JSON.parse

JSONValue(type, version, name, model, ports, features) ==
    [type |-> type, version |-> version, name |-> name, model |-> model,
     ports |-> ports, features |-> features]

\* the variable of identify's predicate when JSON.parse threw: let data;
NotParsed ==
    JSONValue("undefined", Undefined, Undefined, Undefined, Undefined, Undefined)

\* the white space JSON allows around a value: tab, line feed, carriage return, space
WhiteSpace == {9, 10, 13, 32}

RECURSIVE SkipWhiteSpace(_, _, _)
\* the first index from i on, stepping by step, that holds no white space
SkipWhiteSpace(text, i, step) ==
    IF i < 1 \/ i > Len(text) THEN i
    ELSE IF text[i] \in WhiteSpace THEN SkipWhiteSpace(text, i + step, step)
    ELSE i

\* text without the white space before and after it
Trim(text) == SubSeq(text, SkipWhiteSpace(text, 1, 1), SkipWhiteSpace(text, Len(text), -1))

\* JSON.parse(String(data)) on the texts of this model: the value of a record the
\* device sends, white space around it ignored.  Every other buffer the model can
\* accumulate is a record cut short, or joined to other bytes that are not white
\* space: JSON.parse throws and data stays undefined.
JSONparse(text) ==
    LET body == Trim(text)
    IN  CASE body = RecordVersionOnly ->
                JSONValue("object", Def("1.0"), Undefined, Undefined, Undefined,
                          Undefined)
          [] body = RecordFull ->
                JSONValue("object", Def("2"), Def("n"), Def("m"),
                          Def(<<[port |-> 1, mode |-> "o"]>>), Def(<<"f">>))
          [] body = RecordNoVersion ->
                JSONValue("object", Undefined, Def("n"), Undefined, Undefined,
                          Undefined)
          [] body = RecordEmptyVersion ->
                JSONValue("object", Def(""), Undefined, Undefined, Undefined,
                          Undefined)
          [] OTHER -> NotParsed

\* ------------------------------------------------------- the bitset codec

\* BitSet.get(ndx): 1 for a member, 0 for any other index
get(source, ndx) == IF ndx \in source THEN 1 ELSE 0

\* byte & weight, as a truth value; weight is a power of two
Masked(byte, weight) == (byte \div weight) % 2 = 1

\* the weight of the bit that stands for index bitsetOffset + j: 0b10000000 for
\* j = 0 down to 0b00000001 for j = 7
Weight(j) == 2 ^ (7 - j)

\* EncodedByte gone wrong: the first index of a byte in the lowest bit
EncodedByte_LowBitFirst(source, i) ==
    LET bitsetOffset == i * 8
    IN  get(source, bitsetOffset) * 1 + get(source, bitsetOffset + 1) * 2
          + get(source, bitsetOffset + 2) * 4 + get(source, bitsetOffset + 3) * 8
          + get(source, bitsetOffset + 4) * 16 + get(source, bitsetOffset + 5) * 32
          + get(source, bitsetOffset + 6) * 64 + get(source, bitsetOffset + 7) * 128

\* the byte bitsetToBuffer writes in round i of its loop: the bitwise OR of eight
\* distinct bits is their sum
EncodedByte(source, i) ==
    LET bitsetOffset == i * 8
    IN  get(source, bitsetOffset) * 128 + get(source, bitsetOffset + 1) * 64
          + get(source, bitsetOffset + 2) * 32 + get(source, bitsetOffset + 3) * 16
          + get(source, bitsetOffset + 4) * 8 + get(source, bitsetOffset + 5) * 4
          + get(source, bitsetOffset + 6) * 2 + get(source, bitsetOffset + 7) * 1

\* what a call of the codec gives: it threw "buffer overflow" or not, the buffer
\* and the bit set after it
Thrown(b, s) == [threw |-> TRUE, buffer |-> b, set |-> s]
Returned(b, s) == [threw |-> FALSE, buffer |-> b, set |-> s]

\* bitsetToBuffer gone wrong: no test of the bounds, the bytes that fit are written
bitsetToBuffer_Truncates(destination, source, byteCount, offset) ==
    Returned([j \in 1..Len(destination) |->
                 IF j - 1 >= offset /\ j - 1 < offset + byteCount
                 THEN EncodedByte(source, j - 1 - offset)
                 ELSE destination[j]],
             source)

\* bitsetToBuffer(destination, source, byteCount, offset): writeUInt8 at
\* offset + i for i = 0 .. byteCount - 1
bitsetToBuffer(destination, source, byteCount, offset) ==
    IF offset + byteCount > Len(destination) THEN Thrown(destination, source)
    ELSE Returned([j \in 1..Len(destination) |->
                      IF j - 1 >= offset /\ j - 1 < offset + byteCount
                      THEN EncodedByte(source, j - 1 - offset)
                      ELSE destination[j]],
                  source)

\* bufferToBitset gone wrong: the two lowest bits of a byte change places
bufferToBitset_LowBitsSwapped(source, byteCount, offset) ==
    IF offset + byteCount > Len(source) THEN Thrown(source, {})
    ELSE Returned(source,
                  {n \in 0..(byteCount * 8 - 1) :
                     Masked(source[offset + (n \div 8) + 1],
                            IF n % 8 = 6 THEN 1 ELSE IF n % 8 = 7 THEN 2
                            ELSE Weight(n % 8))})

\* bufferToBitset(source, byteCount, offset): a new BitSet in which index
\* i * 8 + j is set when byte offset + i has the bit of weight j
bufferToBitset(source, byteCount, offset) ==
    IF offset + byteCount > Len(source) THEN Thrown(source, {})
    ELSE Returned(source,
                  {n \in 0..(byteCount * 8 - 1) :
                     Masked(source[offset + (n \div 8) + 1], Weight(n % 8))})

\* ----------------------------------------------------- functionTimeout

\* functionTimeout(new Promise(...), timeout): the promise of the operation's own
\* executor (inner), the promise the caller gets (outer) and the timer.
functionTimeout(kind) ==
    [kind   |-> kind,
     inner  |-> "pending",
     outer  |-> "pending",
     timer  |-> "armed",
     value  |-> <<>>,
     record |-> NotParsed,
     \* the counter a count-prefixed predicate keeps beside it: let universeCount = 0
     count  |-> 0,
     \* the addresses parameter the predicates of the by-address calls refer to
     addresses |-> <<>>]

\* functionTimeoutTimer gone wrong: the timer runs and rejects nothing
functionTimeoutTimer_NoReject(o) == [o EXCEPT !.timer = "fired"]

\* the timer: reject("timeout reached")
functionTimeoutTimer(o) ==
    [o EXCEPT !.timer = "fired",
              !.outer = IF @ = "pending" THEN "timeout reached" ELSE @]

\* Resolve gone wrong: result.then resolves and leaves the timer armed
Resolve_KeepsTimer(o, value, record) ==
    IF o.inner # "pending" THEN o
    ELSE [o EXCEPT !.inner = "resolved",
                   !.value = value,
                   !.record = record,
                   !.outer = IF @ = "pending" THEN "resolved" ELSE @]

\* Resolve gone wrong: the caller's promise is settled again
Resolve_SettlesAgain(o, value, record) ==
    IF o.inner # "pending" THEN o
    ELSE [o EXCEPT !.inner = "resolved",
                   !.value = value,
                   !.record = record,
                   !.timer = IF @ = "armed" THEN "cleared" ELSE @,
                   !.outer = "resolved"]

\* resolve(value) of the inner promise, then result.then: clearTimeout, resolve
Resolve(o, value, record) ==
    IF o.inner # "pending" THEN o
    ELSE [o EXCEPT !.inner = "resolved",
                   !.value = value,
                   !.record = record,
                   !.timer = IF @ = "armed" THEN "cleared" ELSE @,
                   !.outer = IF @ = "pending" THEN "resolved" ELSE @]

\* reject(message) of the inner promise, then .catch: clearTimeout, reject
Reject(o, message) ==
    IF o.inner # "pending" THEN o
    ELSE [o EXCEPT !.inner = "rejected",
                   !.timer = IF @ = "armed" THEN "cleared" ELSE @,
                   !.outer = IF @ = "pending" THEN message ELSE @]

\* ---------------------------------------------------------------- Device

PortOpen == port # 0 /\ calls[port].port = "open"

\* sendMessageHeader gone wrong: the 16-bit fields written high byte first
sendMessageHeader_BigEndian(opcode, length) ==
    <<0, (opcode \div 256) % 256, opcode % 256, (length \div 256) % 256, length % 256>>

\* sendMessageHeader
sendMessageHeader(opcode, length) == <<0>> \o UInt16LE(opcode) \o UInt16LE(length)

\* sendMessage: the header, then the payload; this.port?.write
sendMessage(w, p, opcode, data) ==
    IF p = 0 THEN w
    ELSE w \o <<sendMessageHeader(opcode, Len(data)), data>>

\* clearResponse gone wrong: the buffer is kept
clearResponse_Keep(r) == r

clearResponse(r) == <<>>

\* onData gone wrong: a predicate already registered is kept
onData_KeepsFirst(cb, k) == IF cb = 0 THEN k ELSE cb

\* onData(callback): this.dataCallback = callback
onData(cb, k) == k

\* populateData gone wrong: every listed port is stored at index 0
populateData_PortsAtZero(id, data) ==
    [dcsmVersion |-> data.version,
     name        |-> data.name,
     model       |-> data.model,
     ports       |-> IF data.ports = Undefined \/ data.ports[1] = <<>> THEN id.ports
                     ELSE [id.ports EXCEPT ![0] = Def(data.ports[1][Len(data.ports[1])])],
     features    |-> data.features]

populateData(id, data) ==
    [dcsmVersion |-> data.version,
     name        |-> data.name,
     model       |-> data.model,
     ports       |-> IF data.ports = Undefined THEN id.ports
                     ELSE [n \in PortNumbers |->
                            LET listed == {j \in DOMAIN data.ports[1] :
                                             data.ports[1][j].port = n}
                            IN  IF listed = {} THEN id.ports[n]
                                ELSE Def(data.ports[1][CHOOSE j \in listed :
                                            \A l \in listed : l <= j])],
     features    |-> data.features]

\* What a predicate did: the operation's promises, the device's identity, and
\* whether it threw.
Outcome(o, id, threw) == [op |-> o, identity |-> id, threw |-> threw]

\* identifyCallback gone wrong: `if (!data)` without the test of data.version
identifyCallback_NoVersionTest(o, data, id) ==
    IF ~EndsWith(data, LineBreaks) THEN Outcome(o, id, FALSE)
    ELSE LET parsed   == JSONparse(data)
             rejected == IF parsed.type \in {"undefined", "null"}
                         THEN Reject(o, "invalid identify response")
                         ELSE o
         IN  IF parsed.type \in {"undefined", "null"}
             THEN Outcome(rejected, id, TRUE)
             ELSE Outcome(Resolve(rejected, <<>>, parsed), populateData(id, parsed),
                          FALSE)

\* the predicate of identify
identifyCallback(o, data, id) ==
    IF ~EndsWith(data, LineBreaks) THEN Outcome(o, id, FALSE)
    ELSE LET parsed   == JSONparse(data)
             rejected == IF parsed.type \in {"undefined", "null"}
                            \/ ~Truthy(parsed.version)
                         THEN Reject(o, "invalid identify response")
                         ELSE o
         IN  IF parsed.type \in {"undefined", "null"}
             \* populateData reads data.version of undefined or null: TypeError
             THEN Outcome(rejected, id, TRUE)
             ELSE Outcome(Resolve(rejected, <<>>, parsed), populateData(id, parsed),
                          FALSE)

\* getUniverseDataCallback gone wrong: `>` for `>=`
getUniverseDataCallback_Above512(o, data, id) ==
    IF Len(data) > 512 THEN Outcome(Resolve(o, data, NotParsed), id, FALSE)
    ELSE Outcome(o, id, FALSE)

\* the predicate of getUniverseData
getUniverseDataCallback(o, data, id) ==
    IF Len(data) >= 512 THEN Outcome(Resolve(o, data, NotParsed), id, FALSE)
    ELSE Outcome(o, id, FALSE)

\* the predicate of getFramerate
getFramerateCallback(o, data, id) ==
    IF Len(data) >= 1 THEN Outcome(Resolve(o, <<data[1]>>, NotParsed), id, FALSE)
    ELSE Outcome(o, id, FALSE)

\* Buffer.readUInt8(offset), Buffer.readUInt16LE(offset): offsets count from 0
readUInt8(data, offset) == data[offset + 1]
readUInt16LE(data, offset) == data[offset + 1] + 256 * data[offset + 2]

\* if (data.length >= 2) count = data.readUInt16LE(0)
ReadCount(o, data) ==
    IF Len(data) >= 2 THEN [o EXCEPT !.count = readUInt16LE(data, 0)] ELSE o

\* getMaskUniversesCallback gone wrong: the loop stops one element early
getMaskUniversesCallback_OneShort(o, data, id) ==
    LET c == ReadCount(o, data)
    IN  IF Len(data) >= 2 + (c.count * 2)
        THEN Outcome(Resolve(c, [i \in 1..(c.count - 1) |->
                                    readUInt16LE(data, 2 + (i - 1) * 2)], NotParsed),
                     id, FALSE)
        ELSE Outcome(c, id, FALSE)

\* the predicate of getMaskUniverses
getMaskUniversesCallback(o, data, id) ==
    LET c == ReadCount(o, data)
    IN  IF Len(data) >= 2 + (c.count * 2)
        THEN Outcome(Resolve(c, [i \in 1..c.count |->
                                    readUInt16LE(data, 2 + (i - 1) * 2)], NotParsed),
                     id, FALSE)
        ELSE Outcome(c, id, FALSE)

\* the predicate of getPatches
getPatchesCallback(o, data, id) ==
    LET c == ReadCount(o, data)
    IN  IF Len(data) >= 2 + (c.count * 6)
        THEN Outcome(Resolve(c, [i \in 1..c.count |->
                                    LET offset == 2 + (i - 1) * 6
                                    IN  [outputUniverse |-> readUInt16LE(data, offset),
                                         inputUniverse  |-> readUInt16LE(data, offset + 2),
                                         maskUniverse   |-> readUInt16LE(data, offset + 4)]],
                             NotParsed),
                     id, FALSE)
        ELSE Outcome(c, id, FALSE)

\* the predicate of listPorts
listPortsCallback(o, data, id) ==
    LET c == ReadCount(o, data)
    IN  IF Len(data) >= 2 + (c.count * 3)
        THEN Outcome(Resolve(c, [i \in 1..c.count |->
                                    LET offset == 2 + (i - 1) * 3
                                    IN  [universe |-> readUInt16LE(data, offset),
                                         mode     |-> readUInt8(data, offset + 2)]],
                             NotParsed),
                     id, FALSE)
        ELSE Outcome(c, id, FALSE)

\* the predicate of getMaskUniverseData
getMaskUniverseDataCallback(o, data, id) ==
    IF Len(data) >= 64 + 512
    THEN Outcome(Resolve(o, [mask |-> bufferToBitset(data, 64, 0).set,
                             data |-> SubSeq(data, 64 + 1, 64 + 512)], NotParsed),
                 id, FALSE)
    ELSE Outcome(o, id, FALSE)

\* the predicate of getValuesByAddress: Array.from(data)
getValuesByAddressCallback(o, data, id) ==
    IF Len(data) >= Len(o.addresses)
    THEN Outcome(Resolve(o, data, NotParsed), id, FALSE)
    ELSE Outcome(o, id, FALSE)

\* the predicate of getMaskValuesByAddress
getMaskValuesByAddressCallback(o, data, id) ==
    IF Len(data) >= Len(o.addresses) * 2
    THEN Outcome(Resolve(o, [i \in 1..Len(o.addresses) |->
                                LET offset == (i - 1) * 2
                                IN  [value   |-> readUInt8(data, offset),
                                     masking |-> readUInt8(data, offset + 1) > 0]],
                         NotParsed),
                 id, FALSE)
    ELSE Outcome(o, id, FALSE)

\* this.dataCallback(this.response)
Callback(o, data, id) ==
    CASE o.kind = "identify" -> identifyCallback(o, data, id)
      [] o.kind = "getUniverseData" -> getUniverseDataCallback(o, data, id)
      [] o.kind = "getFramerate" -> getFramerateCallback(o, data, id)
      [] o.kind = "getMaskUniverses" -> getMaskUniversesCallback(o, data, id)
      [] o.kind = "getPatches" -> getPatchesCallback(o, data, id)
      [] o.kind = "listPorts" -> listPortsCallback(o, data, id)
      [] o.kind = "getMaskUniverseData" -> getMaskUniverseDataCallback(o, data, id)
      [] o.kind = "getValuesByAddress" -> getValuesByAddressCallback(o, data, id)
      [] o.kind = "getMaskValuesByAddress" ->
            getMaskValuesByAddressCallback(o, data, id)

\* Accumulate gone wrong: the chunk replaces what was there
Accumulate_Replaces(r, data) == data

\* dataReceived: the buffer after the chunk
Accumulate(r, data) == r \o data

\* ---------------------------------------------------- actions: operations

\* the device answers r to a message that reached it
Answer(r) == wire' = IF PortOpen THEN wire \o r ELSE wire

\* a reply-expecting call: clearResponse, onData, sendMessage, and
\* functionTimeout's timer, all in one turn of the event loop; answers is what
\* the device may send back
Start(kind, opcode, body, answers) ==
    /\ Len(ops) < MaxOps
    /\ response' = clearResponse(response)
    /\ dataCallback' = onData(dataCallback, Len(ops) + 1)
    /\ written' = sendMessage(written, port, opcode, body)
    /\ ops' = Append(ops, functionTimeout(kind))
    /\ \E r \in answers : Answer(r)
    /\ UNCHANGED <<connVars, codecVars, executor, discovery, identity, chunks, uncaught>>

identify(answers) == Start("identify", 1, <<>>, answers)

getUniverseData(universe, answers) ==
    Start("getUniverseData", 4, UInt16LE(universe), answers)

getFramerate(answers) == Start("getFramerate", 6, <<>>, answers)

getMaskUniverses(answers) == Start("getMaskUniverses", 8, <<>>, answers)

getPatches(answers) == Start("getPatches", 16, <<>>, answers)

listPorts(answers) == Start("listPorts", 16, <<>>, answers)

\* the sizes of a "data" event: a fixed size, up to a line break, or all there is
ChunkSizes == {112, 200}
ChunkEnds(w) ==
    {n \in 1..Len(w) : n \in ChunkSizes \/ n = Len(w) \/ w[n] = 10}

\* the sizes of a "data" event of a short response: one, two or three bytes, or
\* all there is; every cut of the stream is a sequence of these
ChunkCuts(w) == {n \in 1..Len(w) : n <= 3 \/ n = Len(w)}

\* a "data" event with the first n bytes in flight: dataReceived
DataReceived(n) ==
    /\ PortOpen
    /\ calls[port].dataListeners > 0
    /\ chunks < MaxChunks
    /\ chunks' = chunks + 1
    /\ wire' = SubSeq(wire, n + 1, Len(wire))
    /\ response' = Accumulate(response, SubSeq(wire, 1, n))
    /\ IF dataCallback = 0
       THEN UNCHANGED <<ops, identity, uncaught>>
       ELSE LET did == Callback(ops[dataCallback], response', identity)
            IN  /\ ops' = [ops EXCEPT ![dataCallback] = did.op]
                /\ identity' = did.identity
                /\ uncaught' = (uncaught \/ did.threw)
    /\ UNCHANGED <<connVars, codecVars, executor, discovery, dataCallback, written>>

\* the timer of functionTimeout runs
OpTimer(k) ==
    /\ k \in DOMAIN ops
    /\ ops[k].timer = "armed"
    /\ ops' = [ops EXCEPT ![k] = functionTimeoutTimer(ops[k])]
    /\ UNCHANGED <<connVars, codecVars, executor, discovery, identity, dataCallback, response, written, wire, chunks,
                   uncaught>>

\* --------------------------------------- actions: fire-and-forget writes

\* Buffer.alloc(512, 0x00), the default data of setUniverseData
ZeroUniverse == [i \in 1..512 |-> 0]

\* framerates the caller sets
Framerates == {30}

\* patches the caller makes
Patches == {[inputUniverse |-> 1, outputUniverse |-> 2, maskUniverse |-> 3]}

\* fire-and-forget calls so far: every call writes a header and a payload
Writes == Len(written) \div 2 - Len(ops)

\* a call that registers no predicate and waits for nothing: sendMessage; cleared
\* is this.response as the call leaves it
Write(opcode, body, cleared) ==
    /\ Writes < MaxWrites
    /\ response' = cleared
    /\ written' = sendMessage(written, port, opcode, body)
    /\ UNCHANGED <<connVars, codecVars, executor, discovery, identity, dataCallback, ops, wire, chunks, uncaught>>

setUniverseData(universe, data) ==
    Write(2, UInt16LE(universe) \o data, clearResponse(response))

setFramerate(framerate) == Write(5, <<framerate % 256>>, response)

patch(p) ==
    Write(14, UInt16LE(p.inputUniverse) \o UInt16LE(p.outputUniverse)
                  \o UInt16LE(p.maskUniverse), response)

\* ------------------------------------------------- actions: sendMessage

\* opcodes and payloads the caller hands to sendMessage: the ends of the 16-bit
\* range, values on both sides of a byte boundary, and the payload of
\* setUniverseData (2 + 512 bytes)
Opcodes == {0, 2, 4, 255, 256, 65535}
Payloads == {<<>>, <<7>>, [i \in 1..514 |-> i % 256], [i \in 1..65535 |-> i % 251]}

\* the caller's sendMessage(opcode, data)
SendMessage(opcode, data) ==
    /\ Writes < MaxWrites
    /\ written' = sendMessage(written, port, opcode, data)
    /\ UNCHANGED <<connVars, codecVars, executor, discovery, identity, dataCallback, response, ops, wire, chunks,
                   uncaught>>

\* ------------------------------------------- the callers of the bitset codec

\* bit sets, buffers, byte counts and offsets the callers of the codec use: 64
\* bytes at offset 0 (getMaskUniverseData), at 2 (setMaskUniverseData) and at 3
\* (setAddressesToValue), and a single byte; buffers that are too short for some
\* of them, fresh (zeroed) or with what Buffer.allocUnsafe left in them
BitSets == {{}, {0}, {7}, {0, 7, 8}, {511}, {3, 64, 255, 256, 510}, 0..511}
Buffers == {[i \in 1..67 |-> 0], [i \in 1..66 |-> 255], [i \in 1..64 |-> (i * 37) % 256],
            <<129, 1>>}
ByteCounts == {1, 64}
Offsets == {0, 2, 3}

\* the last call of the codec: which function, its arguments, whether it threw,
\* and how many calls there have been
NoCall == [call |-> "none", byteCount |-> 0, offset |-> 0, threw |-> FALSE, number |-> 0]
Call(name, byteCount, offset, threw) ==
    [call |-> name, byteCount |-> byteCount, offset |-> offset, threw |-> threw,
     number |-> lastCall.number + 1]

\* a caller encodes the bit set it holds into the buffer it holds
Encode(byteCount, offset) ==
    LET did == bitsetToBuffer(buffer, bitset, byteCount, offset)
    IN  /\ lastCall.number < MaxCalls
        /\ buffer' = did.buffer
        /\ lastCall' = Call("bitsetToBuffer", byteCount, offset, did.threw)
        /\ UNCHANGED <<connVars, opVars, bitset, executor, discovery>>

\* a caller decodes the buffer it holds; the bit set returned replaces the one it
\* held, and nothing is returned when the call throws
Decode(byteCount, offset) ==
    LET did == bufferToBitset(buffer, byteCount, offset)
    IN  /\ lastCall.number < MaxCalls
        /\ bitset' = IF did.threw THEN bitset ELSE did.set
        /\ lastCall' = Call("bufferToBitset", byteCount, offset, did.threw)
        /\ UNCHANGED <<connVars, opVars, buffer, executor, discovery>>

\* ------------------------------ actions: the executor, statement by statement

\* no executor is running: the event loop is free to deliver events
Idle == [kind |-> "none", opcode |-> 0, body |-> <<>>, next |-> 0]

\* ExecutorOrder gone wrong: the message is written first
ExecutorOrder_WriteFirst == <<"sendMessage", "clearResponse", "onData">>

\* the statements of the executor of a reply-expecting call, in the order the
\* source has them
ExecutorOrder == <<"clearResponse", "onData", "sendMessage">>

\* functionTimeout(new Promise(executor), timeout): the executor of a call of
\* this kind starts; no event is delivered before it has run to its end
Begin(kind, opcode, body) ==
    /\ executor = Idle
    /\ Len(ops) < MaxOps
    /\ ops' = Append(ops, functionTimeout(kind))
    /\ executor' = [kind |-> kind, opcode |-> opcode, body |-> body, next |-> 1]
    /\ UNCHANGED <<connVars, codecVars, discovery, identity, dataCallback, response,
                   written, wire, chunks, uncaught>>

\* the next statement of the executor that is running
Statement ==
    /\ executor # Idle
    /\ LET statement == ExecutorOrder[executor.next]
       IN  /\ response' = IF statement = "clearResponse" THEN clearResponse(response)
                          ELSE response
           /\ dataCallback' = IF statement = "onData"
                              THEN onData(dataCallback, Len(ops))
                              ELSE dataCallback
           /\ IF statement = "sendMessage"
              THEN /\ written' = sendMessage(written, port, executor.opcode,
                                             executor.body)
                   /\ \E r \in DeviceResponses(executor.opcode) : Answer(r)
              ELSE UNCHANGED <<written, wire>>
    /\ executor' = IF executor.next = Len(ExecutorOrder) THEN Idle
                   ELSE [executor EXCEPT !.next = @ + 1]
    /\ UNCHANGED <<connVars, codecVars, discovery, identity, ops, chunks, uncaught>>

\* ------------------------------------------- actions: the by-address calls

\* address lists the caller asks for
AddressLists ==
    {<<>>,
     <<[universe |-> 1, address |-> 2]>>,
     <<[universe |-> 1, address |-> 2], [universe |-> 300, address |-> 511]>>}

RECURSIVE AddressBody(_)
\* the body the by-address calls build: per address, the universe and the
\* address as 16-bit little-endian values
AddressBody(addresses) ==
    IF addresses = <<>> THEN <<>>
    ELSE UInt16LE(Head(addresses).universe) \o UInt16LE(Head(addresses).address)
            \o AddressBody(Tail(addresses))

\* getValuesByAddress and getMaskValuesByAddress: clearResponse, onData, the body
\* built from the addresses, and this.sendMessage(0x0010), which is given no
\* body and so sends its default, the empty Buffer
StartByAddress(kind, addresses, answers) ==
    LET body == AddressBody(addresses)
    IN  /\ Len(ops) < MaxOps
        /\ response' = clearResponse(response)
        /\ dataCallback' = onData(dataCallback, Len(ops) + 1)
        /\ written' = sendMessage(written, port, 16, <<>>)
        /\ ops' = Append(ops, [functionTimeout(kind) EXCEPT !.addresses = addresses])
        /\ \E r \in answers : Answer(r)
        /\ UNCHANGED <<connVars, codecVars, executor, discovery, identity, chunks, uncaught>>

getValuesByAddress(addresses, answers) ==
    StartByAddress("getValuesByAddress", addresses, answers)

getMaskValuesByAddress(addresses, answers) ==
    StartByAddress("getMaskValuesByAddress", addresses, answers)

\* ------------------------------------------------- actions: connectDevices

\* the endpoints SerialPort.list() may report
MaxPaths == 2

\* the attempts of one Device's connect that an endpoint may fail
MaxOpenErrors == 1

\* connectDevices has not been called.  paths is the number of endpoints
\* enumerated (the endpoints are 1..paths in enumeration order), index the
\* index of the testDevice invocation, devices the endpoints of the Devices
\* pushed; result and value are connectDevices' promise, settles the calls of
\* its resolve and reject, tried the endpoints a Device was made for.  exits is
\* what the runtime does with an exception no one catches: end the process, or
\* report it and carry on.
NoDiscovery ==
    [listed |-> FALSE, paths |-> 0, index |-> 0, devices |-> <<>>,
     result |-> "none", value |-> <<>>, settles |-> 0, tried |-> <<>>,
     exits |-> FALSE, exited |-> FALSE]

\* what an endpoint may answer to identify: nothing, a record, or text that is
\* not JSON
IdentifyAnswers == {<<>>, IdentifyVersionOnly, IdentifyNotJson}

\* connectDevices(): the executor calls listSerialPorts()
connectDevices ==
    /\ discovery.result = "none"
    /\ discovery' = [discovery EXCEPT !.result = "pending"]
    /\ UNCHANGED <<connVars, opVars, codecVars, executor>>

\* testDevice(paths, index), d being the closure as its caller leaves it:
\* resolve(devices) past the last path, else new Device(path) and
\* device.connect()
testDevice(d, index) ==
    IF index = d.paths
    THEN /\ discovery' = [d EXCEPT !.index = index,
                                   !.result = IF @ = "pending" THEN "resolved" ELSE @,
                                   !.value = IF d.result = "pending" THEN d.devices ELSE @,
                                   !.settles = @ + 1]
         /\ UNCHANGED <<calls, port, identity, dataCallback, response, ops, written,
                        wire, chunks>>
    ELSE /\ discovery' = [d EXCEPT !.index = index, !.tried = Append(@, index + 1)]
         /\ calls' = connect(<<>>, DEFAULT_TIMEOUT, now)
         /\ port' = Len(calls')
         /\ identity' = [dcsmVersion |-> Def(""), name |-> Def(""), model |-> Def(""),
                         ports |-> [n \in PortNumbers |-> Undefined],
                         features |-> Def(<<>>)]
         /\ dataCallback' = 0
         /\ response' = <<>>
         /\ ops' = <<>>
         /\ written' = <<>>
         /\ wire' = <<>>
         /\ chunks' = 0

\* listSerialPorts() resolves with n paths: testDevice(ports, 0)
listSerialPorts(n) ==
    /\ discovery.result = "pending"
    /\ ~discovery.listed
    /\ testDevice([discovery EXCEPT !.listed = TRUE, !.paths = n], 0)
    /\ UNCHANGED <<now, uncaught, codecVars, executor>>

\* listSerialPorts() rejects: reject("cannot find devices")
listSerialPortsRejected ==
    /\ discovery.result = "pending"
    /\ ~discovery.listed
    /\ discovery' = [discovery EXCEPT !.listed = TRUE,
                                      !.result = "cannot find devices",
                                      !.settles = @ + 1]
    /\ UNCHANGED <<connVars, opVars, codecVars, executor>>

\* a testDevice invocation is waiting for its device
Testing == discovery.listed /\ discovery.index < discovery.paths

\* device.connect() has settled and its reaction has not run
ConnectSettled == Testing /\ calls[1].result # "pending" /\ ops = <<>>

\* device.identify() has settled and its reaction has not run
IdentifySettled == Testing /\ ops # <<>> /\ ops[1].outer # "pending"

\* device.connect().then(...): device.identify()
connectResolved ==
    /\ ConnectSettled
    /\ calls[1].result = "resolved"
    /\ identify(IdentifyAnswers)

\* device.connect()...catch(...): testDevice(paths, ++index)
connectRejected ==
    /\ ConnectSettled
    /\ calls[1].result # "resolved"
    /\ testDevice(discovery, discovery.index + 1)
    /\ UNCHANGED <<now, uncaught, codecVars, executor>>

\* device.identify().then(...): devices.push(device); testDevice(paths, ++index)
identifyResolved ==
    /\ IdentifySettled
    /\ ops[1].outer = "resolved"
    /\ testDevice([discovery EXCEPT !.devices = Append(@, discovery.index + 1)],
                  discovery.index + 1)
    /\ UNCHANGED <<now, uncaught, codecVars, executor>>

\* device.identify()...catch(...): testDevice(paths, ++index)
identifyRejected ==
    /\ IdentifySettled
    /\ ops[1].outer # "resolved"
    /\ testDevice(discovery, discovery.index + 1)
    /\ UNCHANGED <<now, uncaught, codecVars, executor>>

\* the reactions of a settled promise run before the event loop goes on
ReactionPending == ConnectSettled \/ IdentifySettled

\* the exception that left the "data" listener ends the process
Exit ==
    /\ uncaught
    /\ discovery.exits
    /\ ~discovery.exited
    /\ ~ReactionPending
    /\ discovery' = [discovery EXCEPT !.exited = TRUE]
    /\ UNCHANGED <<connVars, opVars, codecVars, executor>>

\* the event loop takes the next event: the process runs, no reaction is
\* waiting and no exception is about to end it
EventLoop ==
    /\ ~discovery.exited
    /\ ~ReactionPending
    /\ ~(uncaught /\ discovery.exits)

\* ------------------------------------------------------- specifications

\* new Device(path)
InitDevice ==
    /\ identity = [dcsmVersion |-> Def(""), name |-> Def(""), model |-> Def(""),
                   ports |-> [n \in PortNumbers |-> Undefined],
                   features |-> Def(<<>>)]
    /\ dataCallback = 0
    /\ response = <<>>
    /\ ops = <<>>
    /\ written = <<>>
    /\ wire = <<>>
    /\ chunks = 0
    /\ uncaught = FALSE

\* no call of the codec yet
InitCodec ==
    /\ bitset = {}
    /\ buffer = <<>>
    /\ lastCall = NoCall

\* no executor is running
InitExecutor == executor = Idle

\* connectDevices is not in use
InitNoDiscovery == discovery = NoDiscovery

Init ==
    /\ now = 0
    /\ calls = <<>>
    /\ port = 0
    /\ InitDevice
    /\ InitCodec
    /\ InitExecutor
    /\ InitNoDiscovery

Next ==
    \/ \E b \in Budgets : Connect(b)
    \/ \E i \in DOMAIN calls : OpenError(i)
    \/ \E i \in DOMAIN calls : OpenOk(i)
    \/ \E i \in DOMAIN calls : ConnectTimer(i)
    \/ \E i \in DOMAIN calls : Retry(i)
    \/ Tick

\* the connection: connect and its retries
Spec == Init /\ [][Next]_vars

\* a device whose connect() opened at the first attempt
InitOps ==
    /\ now = 0
    /\ calls = connectOpen(connect(<<>>, DEFAULT_TIMEOUT, 0), 1, 1)
    /\ port = 1
    /\ InitDevice
    /\ InitCodec
    /\ InitExecutor
    /\ InitNoDiscovery

NextOps ==
    \/ identify(DeviceResponses(1))
    \/ \E u \in Universes : getUniverseData(u, DeviceResponses(4))
    \/ getFramerate(DeviceResponses(6))
    \/ \E n \in ChunkEnds(wire) : DataReceived(n)
    \/ \E k \in 1..MaxOps : OpTimer(k)

\* the operations of a connected device
OpSpec == InitOps /\ [][NextOps]_vars

NextQuiet ==
    \/ identify(PartialResponses(1))
    \/ \E u \in Universes : getUniverseData(u, PartialResponses(4))
    \/ getFramerate(PartialResponses(6))
    \/ \E n \in ChunkEnds(wire) : DataReceived(n)
    \/ \E k \in 1..MaxOps : OpTimer(k)

\* the operations of a connected device that never completes a response; the
\* event loop runs a timer that is armed
QuietSpec ==
    InitOps /\ [][NextQuiet]_vars /\ \A k \in 1..MaxOps : WF_vars(OpTimer(k))

NextWrites ==
    \/ \E u \in Universes : setUniverseData(u, ZeroUniverse)
    \/ \E f \in Framerates : setFramerate(f)
    \/ \E p \in Patches : patch(p)
    \/ getFramerate(DeviceResponses(6))
    \/ \E n \in ChunkEnds(wire) : DataReceived(n)
    \/ \E k \in 1..MaxOps : OpTimer(k)

\* a connected device whose caller mixes fire-and-forget writes with
\* reply-expecting calls
WriteSpec == InitOps /\ [][NextWrites]_vars

NextCounted ==
    \/ getMaskUniverses(DeviceResponses(8))
    \/ getPatches(DeviceResponses(16))
    \/ listPorts(DeviceResponses(16))
    \/ \E n \in ChunkCuts(wire) : DataReceived(n)
    \/ \E k \in 1..MaxOps : OpTimer(k)

\* the calls whose response is a count and then that many elements, on a
\* connected device, the response cut into chunks anywhere
CountSpec == InitOps /\ [][NextCounted]_vars

NextFrames == \E opcode \in Opcodes, data \in Payloads : SendMessage(opcode, data)

\* a connected device whose caller sends messages of its own
FrameSpec == InitOps /\ [][NextFrames]_vars

\* a caller of the codec with some bit set and some buffer in hand
InitCodecInputs ==
    /\ now = 0
    /\ calls = <<>>
    /\ port = 0
    /\ InitDevice
    /\ bitset \in BitSets
    /\ buffer \in Buffers
    /\ lastCall = NoCall
    /\ InitExecutor
    /\ InitNoDiscovery

NextCodec ==
    \/ \E byteCount \in ByteCounts, offset \in Offsets : Encode(byteCount, offset)
    \/ \E byteCount \in ByteCounts, offset \in Offsets : Decode(byteCount, offset)

\* bitsetToBuffer and bufferToBitset, called in any order
CodecSpec == InitCodecInputs /\ [][NextCodec]_vars

NextOrdered ==
    \/ \E u \in Universes : Begin("getMaskUniverseData", 12, UInt16LE(u))
    \/ Begin("listPorts", 16, <<>>)
    \/ Statement
    \/ executor = Idle /\ \E n \in ChunkEnds(wire) : DataReceived(n)
    \/ executor = Idle /\ \E k \in 1..MaxOps : OpTimer(k)

\* getMaskUniverseData and listPorts on a connected device, the executor of a
\* call taken one statement at a time; events wait until it has returned
OrderSpec == InitOps /\ [][NextOrdered]_vars

NextByAddress ==
    \/ \E a \in AddressLists : getValuesByAddress(a, DeviceResponses(16))
    \/ \E a \in AddressLists : getMaskValuesByAddress(a, DeviceResponses(16))
    \/ \E n \in ChunkCuts(wire) : DataReceived(n)
    \/ \E k \in 1..MaxOps : OpTimer(k)

\* the by-address calls on a connected device
AddressSpec == InitOps /\ [][NextByAddress]_vars

\* the runtime ends the process on an uncaught exception, or carries on
InitDiscovery ==
    /\ now = 0
    /\ calls = <<>>
    /\ port = 0
    /\ InitDevice
    /\ InitCodec
    /\ InitExecutor
    /\ discovery \in {[NoDiscovery EXCEPT !.exits = e] : e \in BOOLEAN}

\* An endpoint fails the first MaxOpenErrors attempts to open it at most; a
\* later attempt opens or stays opening until the timers run.
NextDiscovery ==
    \/ connectDevices
    \/ \E n \in 0..MaxPaths : listSerialPorts(n)
    \/ listSerialPortsRejected
    \/ connectResolved
    \/ connectRejected
    \/ identifyResolved
    \/ identifyRejected
    \/ EventLoop /\ \E i \in DOMAIN calls : i <= MaxOpenErrors /\ OpenError(i)
    \/ EventLoop /\ \E i \in DOMAIN calls : OpenOk(i)
    \/ EventLoop /\ \E i \in DOMAIN calls : ConnectTimer(i)
    \/ EventLoop /\ \E i \in DOMAIN calls : Retry(i)
    \/ EventLoop /\ Tick
    \/ EventLoop /\ \E n \in ChunkEnds(wire) : DataReceived(n)
    \/ EventLoop /\ OpTimer(1)
    \/ Exit

\* connectDevices; every callback that is ready runs in the end
DiscoverySpec == InitDiscovery /\ [][NextDiscovery]_vars /\ WF_vars(NextDiscovery)

\* ------------------------------------------------------- claims: connect

\* every attempt so far ended in an "error" event, the last one may still be opening
EveryOpenErrs ==
    \A i \in DOMAIN calls :
        calls[i].port = "error" \/ (i = Len(calls) /\ calls[i].port = "opening")

\* C1 (as claimed): against an endpoint whose every open attempt ends in an
\* "error" event, connect(300) makes the attempts 300, 200, 100, 0 one at a time and
\* no other, and when its promise is settled it is rejected with "connection
\* failed" after the fourth attempt, never with "timeout reached".
C1_ThreeRetriesThenConnectionFailed ==
    (Len(calls) > 0 /\ calls[1].budget = 300 /\ EveryOpenErrs) =>
        /\ Len(calls) <= 4
        /\ \A i \in DOMAIN calls : calls[i].budget = 300 - (i - 1) * RetryStep
        /\ Cardinality({i \in DOMAIN calls : calls[i].port = "opening"}) <= 1
        /\ calls[1].result # "pending" =>
               /\ calls[1].result = "connection failed"
               /\ Len(calls) = 4

\* C2 (as claimed): an "error" event arms a retry only when the budget of the
\* failing attempt is greater than 0, so no attempt follows one whose budget was
\* 0 or less.
C2_NoRetryOnceBudgetSpent ==
    \A i \in DOMAIN calls :
        /\ calls[i].budget <= 0 => calls[i].retry = "none"
        /\ i > 1 => calls[i - 1].budget > 0

\* the timer of invocation i ran on an endpoint that had neither opened nor failed
TimedOutUnanswered(i) == calls[i].timer = "fired" /\ calls[i].port = "closed"

C4_OpenResolvesAndDisarms ==
    (\E i \in DOMAIN calls : calls[i].port = "open") =>
        /\ calls[1].result = "resolved"
        /\ \A j \in DOMAIN calls : calls[j].timer # "armed"
        /\ calls[port].dataListeners = 1
        /\ \A j \in DOMAIN calls : j # port => calls[j].dataListeners = 0

\* ---------------------------------------------------- claims: operations

\* this step is a "data" event that hands the grown buffer to the predicate of call k
ChunkFor(k) == dataCallback = k /\ response' # response /\ chunks' # chunks

\* C5: a getUniverseData call is resolved by nothing but the chunk that brings the
\* accumulated length from below 512 to 512 or more, with the whole buffer as its
\* value; that chunk does resolve a call still pending; no chunk resolves it while
\* fewer than 512 bytes have accumulated; a settled call keeps its outcome and
\* value (it is resolved once); and when the stream carried nothing but the
\* device's 512-byte response, in whatever chunks, the value is those 512 bytes.
C5_UniverseDataResolvesAt512 ==
    [][\A k \in DOMAIN ops :
        ops[k].kind = "getUniverseData" =>
            /\ (ops[k].inner = "pending" /\ ops'[k].inner = "resolved") =>
                   /\ ChunkFor(k)
                   /\ Len(response) < 512
                   /\ Len(response') >= 512
                   /\ ops'[k].value = response'
            /\ (ChunkFor(k) /\ ops[k].outer = "pending" /\ Len(response') >= 512) =>
                   /\ ops'[k].outer = "resolved"
                   /\ Len(ops) = 1 =>
                          (ops'[k].value = UniverseValues /\ Len(ops'[k].value) = 512)
            /\ (ChunkFor(k) /\ Len(response') < 512) =>
                   (ops'[k].inner = "pending" /\ ops'[k].outer # "resolved")
            /\ ops[k].outer # "pending" => ops'[k].outer = ops[k].outer
            /\ ops[k].outer = "resolved" => ops'[k].value = ops[k].value]_vars

\* C5 happens: the only call of the run, getUniverseData, was resolved with the
\* 512 bytes of the device after more than one chunk
C5_Witness ==
    /\ Len(ops) = 1
    /\ ops[1].kind = "getUniverseData"
    /\ ops[1].outer = "resolved"
    /\ ops[1].value = UniverseValues
    /\ chunks >= 3

\* call k was made; no completing response has reached its predicate; one has;
\* the caller's promise was rejected by the timer
Started(k) == k \in DOMAIN ops
Unanswered(k) == Started(k) /\ ops[k].inner = "pending"
Answered(k) == Started(k) /\ ops[k].inner # "pending"
TimedOut(k) == Started(k) /\ ops[k].outer = "timeout reached"

\* C6: a reply-expecting call whose predicate never gets a completing response
\* (its own promise stays pending) is in the end rejected with "timeout reached",
\* and as long as no completing response has come it is not resolved.
C6_SilentStreamTimesOut ==
    \A k \in 1..MaxOps :
        /\ [](Started(k) => <>(Answered(k) \/ TimedOut(k)))
        /\ [](Unanswered(k) => ops[k].outer \in {"pending", "timeout reached"})

\* C6 happens: a call was rejected by its timer with no completing response
C6_Witness ==
    \E k \in DOMAIN ops :
        /\ ops[k].inner = "pending"
        /\ ops[k].outer = "timeout reached"
        /\ ops[k].timer = "fired"

\* the buffer ends with the double line break and holds no record with a version field
Versionless(data) ==
    /\ EndsWith(data, LineBreaks)
    /\ JSONparse(data).type # "object" \/ JSONparse(data).version = Undefined

\* C7: a chunk that leaves the buffer of a pending identify ending with the double
\* line break, the text not parsing or parsing to a record with no version field,
\* rejects the call with "invalid identify response"; a call so rejected is never
\* resolved; and the predicate settles nothing unless the buffer ends with the
\* double line break.
C7_VersionlessIdentifyRejected ==
    [][\A k \in DOMAIN ops :
        ops[k].kind = "identify" =>
            /\ (ChunkFor(k) /\ ops[k].outer = "pending" /\ Versionless(response')) =>
                   (ops'[k].outer = "invalid identify response"
                        /\ ops'[k].inner = "rejected")
            /\ ops[k].outer = "invalid identify response" =>
                   ops'[k].outer = "invalid identify response"
            /\ ops[k].inner = "rejected" => ops'[k].inner = "rejected"
            /\ (ops[k].inner = "pending" /\ ops'[k].inner # "pending") =>
                   (ChunkFor(k) /\ EndsWith(response', LineBreaks))
            /\ (ChunkFor(k) /\ ~EndsWith(response', LineBreaks)) =>
                   ops'[k] = ops[k]]_vars

\* C7 happens: an identify was rejected for a record without a version field
C7_Witness ==
    \E k \in DOMAIN ops :
        /\ ops[k].kind = "identify"
        /\ ops[k].outer = "invalid identify response"
        /\ Trim(response) = RecordNoVersion

\* the record of the call is what the device now has on file
Populated(id, data) ==
    /\ id.dcsmVersion = data.version
    /\ id.name = data.name
    /\ id.model = data.model
    /\ id.features = data.features
    /\ data.ports # Undefined =>
           \A j \in DOMAIN data.ports[1] :
               id.ports[data.ports[1][j].port] = Def(data.ports[1][j])

\* C8 (as claimed): a chunk that completes, for a pending identify, a record with
\* a version field ended by the double line break resolves the call with that
\* record, and the device then holds the record's version, name, model and
\* features, and each listed port at the index of its port number.
C8_VersionedIdentifyResolves ==
    [][\A k \in DOMAIN ops :
        (ops[k].kind = "identify" /\ ChunkFor(k) /\ ops[k].outer = "pending"
            /\ EndsWith(response', LineBreaks)
            /\ JSONparse(response').type = "object"
            /\ JSONparse(response').version # Undefined) =>
                /\ ops'[k].outer = "resolved"
                /\ ops'[k].record = JSONparse(response')
                /\ Populated(identity', JSONparse(response'))]_vars

\* C8 (amended): the same for a record whose version field is not empty.
C8_NonEmptyVersionIdentifyResolves ==
    [][\A k \in DOMAIN ops :
        (ops[k].kind = "identify" /\ ChunkFor(k) /\ ops[k].outer = "pending"
            /\ EndsWith(response', LineBreaks)
            /\ JSONparse(response').type = "object"
            /\ Truthy(JSONparse(response').version)) =>
                /\ ops'[k].outer = "resolved"
                /\ ops'[k].record = JSONparse(response')
                /\ Populated(identity', JSONparse(response'))]_vars

\* C8 happens: identify was resolved with the full record, which came in more
\* than one chunk, and the device lists port 1
C8_Witness ==
    \E k \in DOMAIN ops :
        /\ ops[k].kind = "identify"
        /\ ops[k].outer = "resolved"
        /\ ops[k].record = JSONparse(IdentifyFull)
        /\ identity.ports[1] = Def([port |-> 1, mode |-> "o"])
        /\ identity.features = Def(<<"f">>)
        /\ chunks >= 2

\* C9: the device registers at most one predicate, that of a call it has made; and
\* the start of a reply-expecting call, whether or not an earlier one is still
\* pending, registers the new call's predicate in place of the old and leaves the
\* shared buffer empty.
C9_StartReplacesPredicateAndBuffer ==
    /\ [](dataCallback \in 0..Len(ops))
    /\ [][Len(ops') = Len(ops) + 1 =>
            /\ dataCallback' = Len(ops')
            /\ response' = <<>>
            /\ ops'[Len(ops')].inner = "pending"]_vars

\* C9 happens: a second call was started while the first was pending with bytes
\* of its response accumulated and more in flight
C9_Witness ==
    /\ Len(ops) = 2
    /\ ops[1].outer = "pending"
    /\ dataCallback = 2
    /\ response = <<>>
    /\ chunks >= 1
    /\ Len(wire) > 0

\* C10 (as claimed): no inbound bytes make the "data" listener throw.
C10_DataListenerNeverThrows == ~uncaught

\* ------------------------------------------------ claims: failed operations

\* C11 (as claimed): once connect is rejected with "connection failed" the device
\* keeps the endpoint it has and no further open attempt replaces it; a call
\* rejected by its timer or for an invalid identify response leaves the endpoint
\* and its state as they were; and an endpoint is closed by nothing but the step
\* that rejects connect with "timeout reached".
C11_FailureKeepsConnection ==
    [][/\ (Len(calls) > 0 /\ calls[1].result = "connection failed") =>
              (port' = port /\ Len(calls') = Len(calls))
       /\ \A k \in DOMAIN ops :
              (ops[k].outer = "pending"
                  /\ ops'[k].outer \in {"timeout reached", "invalid identify response"}) =>
                  (port' = port /\ calls' = calls)
       /\ \A i \in DOMAIN calls :
              (calls[i].port # "closed" /\ calls'[i].port = "closed") =>
                  (calls[1].result = "pending" /\ calls'[1].result = "timeout reached")]_vars

\* C12 (as claimed): every call that writes a message, the fire-and-forget writes
\* included, leaves the response buffer empty.
C12_EveryOperationClearsResponse ==
    [][Len(written') > Len(written) => response' = <<>>]_vars

\* call k was rejected by its timer and its predicate is still the one registered
Stale(k) == TimedOut(k) /\ dataCallback = k

\* the buffer is a complete response for a predicate of this kind
Completes(kind, data) ==
    CASE kind = "identify" -> EndsWith(data, LineBreaks)
      [] kind = "getUniverseData" -> Len(data) >= 512
      [] kind = "getFramerate" -> Len(data) >= 1

\* C13: a call rejected by its timer keeps that result whatever happens next; its
\* predicate stays registered as long as no reply-expecting call is started; a
\* chunk arriving meanwhile is appended to the buffer and handed to that
\* predicate, which settles the call's own promise when the buffer completes a
\* response.
C13_StalePredicateStillRuns ==
    [][\A k \in DOMAIN ops :
        /\ TimedOut(k) => ops'[k].outer = "timeout reached"
        /\ (Stale(k) /\ Len(ops') = Len(ops)) => dataCallback' = k
        /\ (Stale(k) /\ chunks' # chunks) =>
               /\ response' = response \o SubSeq(wire, 1, Len(wire) - Len(wire'))
               /\ Len(response') > Len(response)
               /\ (ops[k].inner = "pending" /\ Completes(ops[k].kind, response')) =>
                      ops'[k].inner # "pending"]_vars

\* C13 happens: a getUniverseData was rejected by its timer, the 512 bytes came
\* afterwards and reached its predicate, and the call is still rejected
C13_Witness ==
    \E k \in DOMAIN ops :
        /\ ops[k].kind = "getUniverseData"
        /\ ops[k].timer = "fired"
        /\ ops[k].outer = "timeout reached"
        /\ ops[k].inner = "resolved"
        /\ dataCallback = k
        /\ response = UniverseValues

\* ------------------------------------------- claims: count-prefixed lists

\* the bytes of one element in the response of a count-prefixed call
ElementSize(kind) ==
    CASE kind = "getMaskUniverses" -> 2
      [] kind = "getPatches" -> 6
      [] kind = "listPorts" -> 3

CountPrefixed == {"getMaskUniverses", "getPatches", "listPorts"}

\* the little-endian 16-bit value of the first two bytes
Prefix(data) == data[1] + 256 * data[2]

\* the bytes a count-prefixed response of this kind needs to be complete; with
\* fewer than 2 bytes there is no count and nothing is complete
Complete(kind, data) ==
    /\ Len(data) >= 2
    /\ Len(data) >= 2 + Prefix(data) * ElementSize(kind)

\* C14: getMaskUniverses, getPatches and listPorts, the response cut into chunks
\* anywhere: the call is resolved by nothing but a chunk that leaves at least 2
\* bytes and at least 2 + count * element size bytes accumulated, count being
\* the little-endian value of the first two bytes, and the list it is resolved
\* with has exactly count elements; a chunk that leaves fewer bytes settles
\* nothing; the chunk that completes the response of a pending call resolves
\* it; and a resolved call keeps its list.
C14_CountPrefixedResolvesWhenComplete ==
    [][\A k \in DOMAIN ops :
        ops[k].kind \in CountPrefixed =>
            /\ (ops[k].inner = "pending" /\ ops'[k].inner = "resolved") =>
                   /\ ChunkFor(k)
                   /\ Complete(ops[k].kind, response')
                   /\ Len(ops'[k].value) = Prefix(response')
            /\ (ChunkFor(k) /\ ~Complete(ops[k].kind, response')) =>
                   (ops'[k].inner = ops[k].inner /\ ops'[k].outer = ops[k].outer)
            /\ (ChunkFor(k) /\ ops[k].outer = "pending"
                    /\ Complete(ops[k].kind, response')) =>
                   ops'[k].outer = "resolved"
            /\ ops'[k].outer = "resolved" => ops'[k].inner = "resolved"
            /\ ops[k].outer = "resolved" =>
                   (ops'[k].outer = "resolved" /\ ops'[k].value = ops[k].value)]_vars

\* C14 happens: getMaskUniverses was resolved with the two universes of the
\* device, the six bytes having come in three chunks or more
C14_Witness ==
    \E k \in DOMAIN ops :
        /\ ops[k].kind = "getMaskUniverses"
        /\ ops[k].outer = "resolved"
        /\ ops[k].value = <<7, 300>>
        /\ response = MaskUniverseList
        /\ chunks >= 3

\* --------------------------------------------------------- claims: framing

\* C15: sendMessage(opcode, data) with an opcode of 0..65535 and a payload of at
\* most 65535 bytes makes two writes, the header and then the payload, and the
\* bytes written are 0x00, the opcode low byte first, the payload length low byte
\* first, and the payload: 5 + length bytes.
C15_FrameIsHeaderThenPayload ==
    [][\A opcode \in Opcodes, data \in Payloads :
        (written' # written /\ written' = sendMessage(written, port, opcode, data)) =>
            LET m      == Len(written)
                header == written'[m + 1]
                body   == written'[m + 2]
            IN  /\ opcode \in 0..65535 /\ Len(data) <= 65535
                /\ Len(written') = m + 2
                /\ SubSeq(written', 1, m) = written
                /\ header = <<0, opcode % 256, opcode \div 256,
                              Len(data) % 256, Len(data) \div 256>>
                /\ \A i \in 1..5 : header[i] \in 0..255
                /\ body = data
                /\ Len(header \o body) = 5 + Len(data)]_vars

\* C15 happens: opcode 0x0002 was sent with a payload of 514 bytes, and opcode
\* 0xFFFF with one of 65535 bytes
C15_Witness ==
    /\ Len(written) = 4
    /\ written[1] = <<0, 2, 0, 2, 2>>
    /\ Len(written[2]) = 514
    /\ written[3] = <<0, 255, 255, 255, 255>>
    /\ Len(written[4]) = 65535

\* ---------------------------------------------------- claims: bitset codec

\* this step is a call of bitsetToBuffer, of bufferToBitset
EncodeStep == lastCall' # lastCall /\ lastCall'.call = "bitsetToBuffer"
DecodeStep == lastCall' # lastCall /\ lastCall'.call = "bufferToBitset"

\* C16: a subset of 0..511 encoded into 64 bytes and then decoded from the same
\* 64 bytes comes back as it was.
C16_DecodeOfEncodeIsTheSet ==
    [][(/\ lastCall.call = "bitsetToBuffer" /\ ~lastCall.threw
        /\ lastCall.byteCount = 64
        /\ bitset \subseteq 0..511
        /\ DecodeStep
        /\ lastCall'.byteCount = 64
        /\ lastCall'.offset = lastCall.offset) =>
            (~lastCall'.threw /\ bitset' = bitset)]_vars

\* C16 happens: the set {3, 64, 255, 256, 510} was encoded into the 64 bytes at
\* offset 3 of a zeroed buffer and decoded from there
C16_Witness ==
    /\ lastCall = [call |-> "bufferToBitset", byteCount |-> 64, offset |-> 3,
                   threw |-> FALSE, number |-> 2]
    /\ bitset = {3, 64, 255, 256, 510}
    /\ Len(buffer) = 67
    /\ buffer[4] = 16
    /\ buffer[67] = 2

\* C17: after an encoding, index i of the set stands in byte i div 8 counted from
\* the offset, in the bit of weight 2^(7 - i mod 8): the bit is 1 for a member
\* and 0 for a non-member; {0} gives 0b10000000 and {7} gives 0b00000001 in the
\* first byte.
C17_MostSignificantBitFirst ==
    [][(EncodeStep /\ ~lastCall'.threw) =>
        LET byteCount == lastCall'.byteCount
            offset    == lastCall'.offset
        IN  /\ \A i \in 0..(8 * byteCount - 1) :
                   LET byte == buffer'[offset + (i \div 8) + 1]
                   IN  /\ byte \in 0..255
                       /\ (byte \div (2 ^ (7 - (i % 8)))) % 2 = (IF i \in bitset THEN 1 ELSE 0)
            /\ bitset = {0} => buffer'[offset + 1] = 128
            /\ bitset = {7} => buffer'[offset + 1] = 1]_vars

\* C17 happens: {7} was encoded at offset 2 of a buffer that held 255 everywhere
C17_Witness ==
    /\ lastCall.call = "bitsetToBuffer"
    /\ ~lastCall.threw
    /\ lastCall.byteCount = 64
    /\ lastCall.offset = 2
    /\ bitset = {7}
    /\ buffer[2] = 255
    /\ buffer[3] = 1
    /\ buffer[4] = 0

\* C18: a call of the codec throws exactly when offset + byteCount is greater
\* than the length of the buffer, and then the buffer (and the caller's bit set)
\* is as it was; an encoding that does not throw changes no byte outside
\* offset .. offset + byteCount - 1; the length of the buffer never changes and
\* a decoding leaves the buffer alone.
C18_OutOfBoundsThrowsBufferUntouched ==
    [][lastCall' # lastCall =>
        LET byteCount == lastCall'.byteCount
            offset    == lastCall'.offset
        IN  /\ lastCall'.threw <=> offset + byteCount > Len(buffer)
            /\ lastCall'.threw => (buffer' = buffer /\ bitset' = bitset)
            /\ Len(buffer') = Len(buffer)
            /\ DecodeStep => buffer' = buffer
            /\ (EncodeStep /\ ~lastCall'.threw) =>
                   \A j \in 1..Len(buffer) :
                       (j - 1 < offset \/ j - 1 > offset + byteCount - 1) =>
                           buffer'[j] = buffer[j]]_vars

\* C18 happens: an encoding of 64 bytes at offset 3 into a buffer of 66 bytes
\* threw and the buffer still holds 255 everywhere
C18_Witness ==
    /\ lastCall.call = "bitsetToBuffer"
    /\ lastCall.threw
    /\ lastCall.byteCount = 64
    /\ lastCall.offset = 3
    /\ bitset = {0, 7, 8}
    /\ buffer = [i \in 1..66 |-> 255]

\* ------------------------------------------- claims: after the connection

\* C19 (as claimed): once connect has resolved and the endpoint is open, it stays
\* open (the model's caller never closes it): no timer of the connect call closes
\* it later.
C19_ResolvedConnectionStaysOpen ==
    [][(Len(calls) > 0 /\ calls[1].result = "resolved" /\ PortOpen) =>
           (port' = port /\ calls'[port].port = "open")]_vars

\* C20 (as claimed): a chunk handed to the predicate of an identify call that is
\* rejected, for an invalid response or by its timer, changes none of the
\* identity fields of the device.
C20_RejectedIdentifyKeepsIdentity ==
    [][\A k \in DOMAIN ops :
        (ops[k].kind = "identify" /\ ChunkFor(k)
            /\ ops'[k].outer \in {"invalid identify response", "timeout reached"}) =>
                identity' = identity]_vars

\* ------------------------------------------------ claims: one device, many calls

\* C21: a reply-expecting call settles at most once.  Once resolved it stays
\* resolved with the value and record it was resolved with, whatever chunks reach
\* its predicate afterwards, and its timer is disarmed, so no rejection can come
\* from it; once rejected, by its timer or for an invalid identify response, it
\* keeps that rejection and no later data resolves it.
C21_SettlesAtMostOnce ==
    /\ [](\A k \in DOMAIN ops :
            /\ ops[k].outer = "resolved" => ops[k].timer = "cleared"
            /\ ops[k].outer = "timeout reached" => ops[k].timer = "fired")
    /\ [][\A k \in DOMAIN ops :
            /\ ops[k].outer # "pending" => ops'[k].outer = ops[k].outer
            /\ ops[k].outer = "resolved" =>
                   /\ ops'[k].value = ops[k].value
                   /\ ops'[k].record = ops[k].record
                   /\ ops'[k].timer = "cleared"]_vars

\* C21 happens: a getFramerate was resolved by the first chunk that reached its
\* predicate, and more chunks reached it afterwards
C21_Witness ==
    \E k \in DOMAIN ops :
        /\ ops[k].kind = "getFramerate"
        /\ ops[k].outer = "resolved"
        /\ dataCallback = k
        /\ ops[k].value = <<response[1]>>
        /\ Len(response) > 200
        /\ chunks >= 2

\* C22: once a later reply-expecting call has been started, the predicate of an
\* earlier call is never registered again and so never invoked: the earlier
\* call's own promise stays as it was, and if the call was pending the only thing
\* that ever happens to it is the rejection by its timer.  Every chunk that
\* arrives is appended to the one buffer and changes no call but the one started
\* last.
C22_SupersededCallOnlyTimesOut ==
    /\ [](dataCallback = Len(ops))
    /\ [][\A k \in DOMAIN ops :
            /\ k < Len(ops) =>
                   /\ ops'[k].inner = ops[k].inner
                   /\ ops'[k].value = ops[k].value
                   /\ ops'[k] # ops[k] =>
                          /\ ops[k].outer = "pending"
                          /\ ops'[k].outer = "timeout reached"
                          /\ chunks' = chunks
            /\ (chunks' # chunks /\ k # Len(ops)) => ops'[k] = ops[k]
            /\ chunks' # chunks =>
                   response' = response \o SubSeq(wire, 1, Len(wire) - Len(wire'))]_vars

\* C22 happens: getUniverseData was pending when getFramerate was started; the
\* bytes of the universe went to the predicate of getFramerate, which resolved,
\* and getUniverseData ended by its timer
C22_Witness ==
    /\ Len(ops) = 2
    /\ ops[1].kind = "getUniverseData"
    /\ ops[1].inner = "pending"
    /\ ops[1].outer = "timeout reached"
    /\ ops[2].kind = "getFramerate"
    /\ ops[2].outer = "resolved"
    /\ ops[2].value = <<UniverseValues[1]>>
    /\ Len(response) + Len(wire) >= 512

\* C23: a "data" event takes a non-empty chunk from the front of the stream,
\* leaves the buffer equal to what it was followed by that chunk, and hands that
\* whole buffer once to the predicate registered, if there is one: the call of
\* that predicate and the identity of the device are what one invocation makes
\* of them, and no other call changes.  Any other step leaves the buffer as it
\* is or resets it to empty.  So between two resets the buffer is the chunks
\* received since the last reset, in the order they came.
C23_BufferIsChunksSinceReset ==
    [][/\ chunks' # chunks =>
            LET chunk == SubSeq(wire, 1, Len(wire) - Len(wire'))
            IN  /\ Len(chunk) > 0
                /\ wire = chunk \o wire'
                /\ response' = response \o chunk
                /\ dataCallback = 0 => (ops' = ops /\ identity' = identity)
                /\ dataCallback # 0 =>
                       LET did == Callback(ops[dataCallback], response', identity)
                       IN  /\ ops' = [ops EXCEPT ![dataCallback] = did.op]
                           /\ identity' = did.identity
       /\ chunks' = chunks => (response' = response \/ response' = <<>>)]_vars

\* C23 happens: the 512 bytes of a universe came in four chunks and the buffer
\* holds them in order
C23_Witness ==
    /\ Len(ops) = 1
    /\ dataCallback = 1
    /\ chunks = 4
    /\ wire = <<>>
    /\ response = UniverseValues

\* C24: the statement that writes the message of a reply-expecting call finds
\* the buffer already empty and the predicate of that call already registered,
\* and leaves them so; no "data" event is delivered while the executor runs, so
\* every chunk is appended to a buffer reset for the call started last and
\* handed to the predicate of that call.
C24_ClearedAndRegisteredBeforeWrite ==
    /\ [](executor = Idle => dataCallback = Len(ops))
    /\ [][/\ Len(written') > Len(written) =>
                /\ response = <<>> /\ response' = <<>>
                /\ dataCallback = Len(ops) /\ dataCallback' = Len(ops)
                /\ ops[Len(ops)].inner = "pending"
          /\ chunks' # chunks =>
                /\ executor = Idle
                /\ dataCallback = Len(ops)
                /\ Len(written) = 2 * Len(ops)]_vars

\* C24 happens: listPorts, started after a call whose response had begun to
\* accumulate, has reset the buffer and registered its predicate and has not
\* written its message yet
C24_Witness ==
    /\ executor.kind = "listPorts"
    /\ executor.next = 3
    /\ Len(ops) = 2
    /\ ops[1].kind = "getMaskUniverseData"
    /\ chunks >= 1
    /\ Len(wire) > 0
    /\ response = <<>>
    /\ dataCallback = 2
    /\ Len(written) = 2

\* C25 (as claimed): the message getValuesByAddress and getMaskValuesByAddress
\* write for N addresses has 4 * N in the length field of its header and, as its
\* payload, the universe and the address of every address in order, each as a
\* 16-bit little-endian value.
C25_ByAddressMessageCarriesAddresses ==
    [][(/\ Len(ops') = Len(ops) + 1
        /\ ops'[Len(ops')].kind \in {"getValuesByAddress", "getMaskValuesByAddress"}) =>
            LET addresses == ops'[Len(ops')].addresses
                N         == Len(addresses)
            IN  /\ Len(written') = Len(written) + 2
                /\ written'[Len(written') - 1] =
                       <<0, 16, 0, (4 * N) % 256, (4 * N) \div 256>>
                /\ Len(written'[Len(written')]) = 4 * N
                /\ \A i \in 1..N :
                       SubSeq(written'[Len(written')], 4 * i - 3, 4 * i) =
                           <<addresses[i].universe % 256, addresses[i].universe \div 256,
                             addresses[i].address % 256, addresses[i].address \div 256>>]_vars

\* the device of the testDevice invocation that is waiting connected and identified
BothSucceeded ==
    /\ calls # <<>> /\ calls[1].result = "resolved"
    /\ ops # <<>> /\ ops[1].outer = "resolved"

\* the device of the testDevice invocation that is waiting has failed: its
\* connect is rejected, or its identify is
HasFailed ==
    \/ calls # <<>> /\ calls[1].result \notin {"pending", "resolved"}
    \/ ops # <<>> /\ ops[1].outer \notin {"pending", "resolved"}

\* C26 (as claimed): connectDevices tries the enumerated endpoints one at a time
\* in enumeration order, the next one only after the connect and identify of the
\* one before have settled; it resolves once, after every endpoint has been
\* tried, with the endpoints whose connect and identify both succeeded, in
\* order; and once the endpoints are enumerated it does resolve, whatever the
\* endpoints do.
C26_DiscoveryTriesEveryEndpoint ==
    /\ [](/\ discovery.tried = [i \in 1..Len(discovery.tried) |-> i]
          /\ discovery.settles <= 1
          /\ discovery.result = "resolved" =>
                /\ Len(discovery.tried) = discovery.paths
                /\ discovery.value = discovery.devices)
    /\ [][/\ (discovery'.tried # discovery.tried /\ discovery.tried # <<>>) =>
                  BothSucceeded \/ HasFailed
          /\ discovery'.devices # discovery.devices =>
                  /\ BothSucceeded
                  /\ discovery'.devices = Append(discovery.devices, discovery.index + 1)
          /\ (discovery.listed /\ discovery'.index # discovery.index
                /\ discovery'.devices = discovery.devices) => HasFailed]_vars
    /\ (discovery.listed /\ discovery.result = "pending") ~>
            (discovery.result = "resolved")

====
